---- MODULE Spec2Model ----
(***************************************************************************)
(* Model of the price-series statistics library: PriceSeries               *)
(* (src/priceseries.py), Asset (src/asset.py) and CurrencyEnum             *)
(* (src/pyvest/source/constant.py).                                        *)
(*                                                                         *)
(* Python objects live in a heap: `lists` holds the list objects,          *)
(* `series` the PriceSeries objects (their `values` field is a reference   *)
(* into `lists`), `assets` the Asset objects (their `prices` field is a    *)
(* reference into `series`).  `last` records the most recent call, its     *)
(* arguments and its outcome (a returned value or a raised exception).     *)
(*                                                                         *)
(* Numbers are exact: a quotient is a reduced fraction <<num, den>>, and   *)
(* math.log / math.sqrt results are kept as terms over their arguments.    *)
(***************************************************************************)
EXTENDS Integers, Sequences, FiniteSets, TLC

VARIABLES lists, series, assets, last

vars == <<lists, series, assets, last>>

(***************************************************************************)
(* Bounds                                                                  *)
(***************************************************************************)
MaxLen == 3            \* longest price list of the calculation spec
PriceRange == 2        \* prices of the calculation spec are -PriceRange..PriceRange
MaxHeapLen == 1        \* longest list the caller builds in the lifecycle spec
MaxLists == 2          \* list objects in the heap (each PriceSeries adds one)
MaxAssets == 2         \* Asset objects in the heap
MaxRate == 1           \* risk-free rates are 0..MaxRate

Prices == (-PriceRange)..PriceRange
HeapPrices == {1, 2}
Indices == (-(MaxLen + 1))..(MaxLen + 1)
Rates == 0..MaxRate

RECURSIVE AllSeqs(_, _)
AllSeqs(S, n) ==
    IF n = 0 THEN {<<>>}
    ELSE LET shorter == AllSeqs(S, n - 1)
         IN  shorter \cup {Append(q, x) : q \in {r \in shorter : Len(r) = n - 1}, x \in S}

(***************************************************************************)
(* Exact arithmetic                                                        *)
(***************************************************************************)
Abs(x) == IF x < 0 THEN -x ELSE x

RECURSIVE GCD(_, _)
GCD(a, b) == IF b = 0 THEN a ELSE GCD(b, a % b)

\* n / d as a reduced fraction with a positive denominator (d # 0)
Frac(n, d) ==
    LET g == GCD(Abs(n), Abs(d))
        s == IF d < 0 THEN -1 ELSE 1
    IN  <<(s * n) \div g, (s * d) \div g>>

FracLess(a, b) == a[1] * b[2] < b[1] * a[2]

\* Python's min(a, b): the first argument unless the second is smaller
FracMin(a, b) == IF FracLess(b, a) THEN b ELSE a

\* Python's max(a, b) on numbers
PyMax(a, b) == IF b > a THEN b ELSE a

\* Python's max(xs) on a non-empty list
RECURSIVE ListMax(_)
ListMax(xs) ==
    IF Len(xs) = 1 THEN xs[1] ELSE PyMax(xs[1], ListMax(Tail(xs)))

(***************************************************************************)
(* Values and outcomes of a call                                           *)
(***************************************************************************)
Zero == <<0, 1>>

Rat(n, d) == [tag |-> "rat", q |-> Frac(n, d), args |-> <<>>]
Float0 == [tag |-> "rat", q |-> Zero, args |-> <<>>]
None == [tag |-> "None", q |-> Zero, args |-> <<>>]
Term(tag, q, args) == [tag |-> tag, q |-> q, args |-> args]

Val(v) == [kind |-> "value", exc |-> "", msg |-> "", v |-> v]
Raise(exc, msg) == [kind |-> "error", exc |-> exc, msg |-> msg, v |-> None]

IndexError == Raise("IndexError", "index out of range")
ZeroDivisionError == Raise("ZeroDivisionError", "division by zero")
MathDomainError == Raise("ValueError", "math domain error")
NotEnoughData == Raise("ValueError", "Not enough data points")
AttributeError == Raise("AttributeError", "no such attribute")

\* Python list indexing xs[i]: negative indexes count from the end
InRange(xs, i) == -Len(xs) <= i /\ i < Len(xs)
Item(xs, i) == IF i < 0 THEN xs[Len(xs) + i + 1] ELSE xs[i + 1]

(***************************************************************************)
(* PriceSeries: the statistics, as functions of self.values                *)
(***************************************************************************)
TRADING_DAYS_PER_YEAR == 252

linear_return(values, t) ==
    IF ~InRange(values, t) \/ ~InRange(values, t - 1) THEN IndexError
    ELSE IF Item(values, t - 1) = 0 THEN ZeroDivisionError
    ELSE Val(Rat(Item(values, t) - Item(values, t - 1), Item(values, t - 1)))

log_return(values, t) ==
    IF ~InRange(values, t) \/ ~InRange(values, t - 1) THEN IndexError
    ELSE IF Item(values, t - 1) = 0 THEN ZeroDivisionError
    ELSE IF Item(values, t) * Item(values, t - 1) <= 0 THEN MathDomainError
    ELSE Val(Term("log", Frac(Item(values, t), Item(values, t - 1)), <<>>))

total_return_values_1(values) ==
    IF Len(values) < 2 THEN Val(Float0)
    ELSE IF Item(values, 0) = 0 THEN ZeroDivisionError
    ELSE Val(Rat(Item(values, 1) - Item(values, 0), Item(values, 0)))

total_return(values) ==
    IF Len(values) < 2 THEN Val(Float0)
    ELSE IF Item(values, 0) = 0 THEN ZeroDivisionError
    ELSE Val(Rat(Item(values, -1) - Item(values, 0), Item(values, 0)))

\* [self.linear_return(t) for t in range(1, len(self.values))]: the first
\* exception escapes
get_all_linear_returns(values) ==
    LET ts == 1..(Len(values) - 1)
        failed == {t \in ts : linear_return(values, t).kind = "error"}
    IN  IF failed # {}
        THEN linear_return(values, CHOOSE t \in failed : \A u \in failed : t <= u)
        ELSE Val(Term("list", Zero, [i \in ts |-> linear_return(values, i).v.q]))

\* [self.log_return(t) for t in range(1, len(self.values))]
get_all_log_returns(values) ==
    LET ts == 1..(Len(values) - 1)
        failed == {t \in ts : log_return(values, t).kind = "error"}
    IN  IF failed # {}
        THEN log_return(values, CHOOSE t \in failed : \A u \in failed : t <= u)
        ELSE Val(Term("list of log", Zero, [i \in ts |-> log_return(values, i).v.q]))

\* the sample variance of the logs of `ratios` is zero iff they are all equal
ZeroVariance(ratios) == \A i, j \in DOMAIN ratios : ratios[i] = ratios[j]

annualized_volatility_min_2(values) ==
    IF Len(values) < 2 THEN NotEnoughData
    ELSE LET log_returns == get_all_log_returns(values)
         IN  IF log_returns.kind = "error" THEN log_returns
             ELSE IF Len(log_returns.v.args) - 1 = 0 THEN ZeroDivisionError
             ELSE IF ZeroVariance(log_returns.v.args) THEN Val(Float0)
             ELSE Val(Term("stdev of log * sqrt", <<TRADING_DAYS_PER_YEAR, 1>>,
                           log_returns.v.args))

annualized_volatility(values) ==
    IF Len(values) < 3 THEN NotEnoughData
    ELSE LET log_returns == get_all_log_returns(values)
         IN  IF log_returns.kind = "error" THEN log_returns
             ELSE IF Len(log_returns.v.args) - 1 = 0 THEN ZeroDivisionError
             ELSE IF ZeroVariance(log_returns.v.args) THEN Val(Float0)
             ELSE Val(Term("stdev of log * sqrt", <<TRADING_DAYS_PER_YEAR, 1>>,
                           log_returns.v.args))

annualized_return(values) ==
    IF Len(values) < 2 THEN NotEnoughData
    ELSE LET r == get_all_log_returns(values)
         IN  IF r.kind = "error" THEN r
             ELSE Val(Term("mean of log *", <<TRADING_DAYS_PER_YEAR, 1>>, r.v.args))

sharpe_ratio(values, risk_free_rate) ==
    LET vol == annualized_volatility(values)
    IN  IF vol.kind = "error" THEN vol
        ELSE IF vol.v = Float0 THEN Val(Float0)
        ELSE LET ret == annualized_return(values)
             IN  IF ret.kind = "error" THEN ret
                 ELSE Val(Term("(mean of log * 252 - rf) / vol",
                               <<risk_free_rate, 1>>, ret.v.args))

drawdown_at(values, t) ==
    IF t < 0 \/ t >= Len(values) THEN IndexError
    ELSE LET peak == ListMax(SubSeq(values, 1, t + 1))
         IN  IF peak = 0 THEN Val(Float0)
             ELSE Val(Rat(Item(values, t) - peak, peak))

\* the body of the for loop of max_drawdown, over the rest of the list
RECURSIVE max_drawdown_loop(_, _, _)
max_drawdown_loop(rest, peak, max_dd) ==
    IF rest = <<>> THEN max_dd
    ELSE LET value == Head(rest)
             peak2 == PyMax(peak, value)
         IN  max_drawdown_loop(Tail(rest), peak2,
                 IF peak2 > 0 THEN FracMin(max_dd, Frac(value - peak2, peak2))
                 ELSE max_dd)

\* the loop with the peak left at values[0]
RECURSIVE max_drawdown_loop_fixed_peak(_, _, _)
max_drawdown_loop_fixed_peak(rest, peak, max_dd) ==
    IF rest = <<>> THEN max_dd
    ELSE max_drawdown_loop_fixed_peak(Tail(rest), peak,
             IF peak > 0 THEN FracMin(max_dd, Frac(Head(rest) - peak, peak))
             ELSE max_dd)

max_drawdown_fixed_peak(values) ==
    IF ~InRange(values, 0) THEN IndexError
    ELSE Val(Term("rat", max_drawdown_loop_fixed_peak(Tail(values), Item(values, 0), Zero), <<>>))

max_drawdown(values) ==
    IF ~InRange(values, 0) THEN IndexError
    ELSE Val(Term("rat", max_drawdown_loop(Tail(values), Item(values, 0), Zero), <<>>))

(***************************************************************************)
(* PriceSeries: construction                                               *)
(***************************************************************************)
Names == {"unnamed"}

\* self.values = values: the series keeps the caller's list object itself
ListAlias(heap, l) == [heap |-> heap, ref |-> l]

\* self.values = list(values): a new list object with the same items
ListCopy(heap, l) == [heap |-> Append(heap, heap[l]), ref |-> Len(heap) + 1]

\* a PriceSeries object; `src` remembers which list the caller passed
PriceSeriesObject(ref, name, l) == [values |-> ref, name |-> name, src |-> l]

Values(s) == lists[series[s].values]

\* PriceSeries.__len__
PriceSeriesLen(s) == Len(Values(s))

(***************************************************************************)
(* Asset                                                                   *)
(***************************************************************************)
CurrencyEnum == {"USD", "EUR", "GBP", "JPY"}
DefaultCurrency == "USD"
NoSector == "None"
Sectors == {NoSector}
Currencies == {DefaultCurrency, "EUR"}

Whitespace == {" "}
TickerChars == {" ", "a"}
Tickers == {<<>>, <<" ">>, <<"a">>, <<" ", "a">>}

\* str.strip(): drop the leading and trailing whitespace
RECURSIVE LStrip(_)
LStrip(str) ==
    IF str # <<>> /\ Head(str) \in Whitespace THEN LStrip(Tail(str)) ELSE str

RECURSIVE RStrip(_)
RStrip(str) ==
    IF str # <<>> /\ str[Len(str)] \in Whitespace
    THEN RStrip(SubSeq(str, 1, Len(str) - 1)) ELSE str

Strip(str) == RStrip(LStrip(str))

\* str.upper()
UpperChar(c) == IF c = "a" THEN "A" ELSE c
Upper(str) == [i \in 1..Len(str) |-> UpperChar(str[i])]

EmptyTicker == Raise("ValueError", "Le ticker ne peut pas etre vide")
EmptyPrices == Raise("ValueError", "La serie de prix ne peut pas etre vide")

\* the validation of Asset.__init__ with only the `not ticker` test
AssetValidateNoStrip(ticker, n) ==
    IF ticker = <<>> THEN EmptyTicker
    ELSE IF n = 0 THEN EmptyPrices
    ELSE Val(None)

\* the validation of Asset.__init__; n is len(prices)
AssetValidate(ticker, n) ==
    IF ticker = <<>> \/ Strip(ticker) = <<>> THEN EmptyTicker
    ELSE IF n = 0 THEN EmptyPrices
    ELSE Val(None)

AssetObject(ticker, s, sector, currency) ==
    [ticker |-> Upper(ticker), prices |-> s, sector |-> sector, currency |-> currency]

\* what an instance of Asset answers to: the fields set by __init__ and
\* the names bound in the class body (the functions defined inside the body
\* of __init__ are locals of that call, not attributes)
AssetInstanceAttrs == {"ticker", "prices", "sector", "currency"}
AssetClassAttrs == {"__init__", "correlation_with"}
AttrNames == {"prices", "current_price", "volatility", "total_return",
              "sharpe_ratio", "max_drawdown"}

\* asset.<name>
AssetGetAttribute(asset, name) ==
    IF name = "prices" THEN Val(Term("PriceSeries", <<asset.prices, 1>>, <<>>))
    ELSE IF name \in AssetInstanceAttrs \cup AssetClassAttrs
    THEN Val(Term(name, Zero, <<>>))
    ELSE AttributeError

\* the body of correlation_with is its docstring alone
correlation_with(self, other) == Val(None)

(***************************************************************************)
(* State machine                                                           *)
(***************************************************************************)
Call(op, obj, t, name, ticker, out) ==
    [op |-> op, obj |-> obj, t |-> t, name |-> name, ticker |-> ticker, out |-> out]

NoCall == Call("", 0, 0, "", <<>>, Val(None))

\* the lifecycle specification starts from an empty heap
Init ==
    /\ lists = <<>>
    /\ series = <<>>
    /\ assets = <<>>
    /\ last = NoCall

\* the calculation specification starts after
\*   ps = PriceSeries(values); a = Asset("A", ps)
\* (the Asset only when its construction succeeds), for every bounded list
InitCalc ==
    \E values \in AllSeqs(Prices, MaxLen) :
        /\ lists = <<values, values>>
        /\ series = <<PriceSeriesObject(2, "unnamed", 1)>>
        /\ assets = IF AssetValidate(<<"A">>, Len(values)).kind = "value"
                    THEN <<AssetObject(<<"A">>, 1, NoSector, DefaultCurrency)>>
                    ELSE <<>>
        /\ last = NoCall

\* the caller builds a list of prices
NewList(xs) ==
    /\ Len(lists) < MaxLists
    /\ lists' = Append(lists, xs)
    /\ last' = Call("list", Len(lists) + 1, 0, "", <<>>, Val(None))
    /\ UNCHANGED <<series, assets>>

\* PriceSeries(values, name), values being the list object l
PriceSeriesInit(l, name) ==
    LET c == ListCopy(lists, l) IN
    /\ Len(c.heap) <= MaxLists
    /\ lists' = c.heap
    /\ series' = Append(series, PriceSeriesObject(c.ref, name, l))
    /\ last' = Call("PriceSeries", Len(series) + 1, l, name, <<>>, Val(None))
    /\ UNCHANGED assets

\* xs[i] = x on the list object l, by whoever holds a reference to it
SetItem(l, i, x) ==
    /\ lists[l][i] # x
    /\ lists' = [lists EXCEPT ![l][i] = x]
    /\ last' = Call("setitem", l, i, "", <<>>, Val(None))
    /\ UNCHANGED <<series, assets>>

\* Asset(ticker, prices, sector, currency), prices being the series object s
AssetInit(ticker, s, sector, currency) ==
    LET out == AssetValidate(ticker, PriceSeriesLen(s)) IN
    /\ out.kind = "value" => Len(assets) < MaxAssets
    /\ assets' = IF out.kind = "value"
                 THEN Append(assets, AssetObject(ticker, s, sector, currency))
                 ELSE assets
    /\ last' = Call("Asset", IF out.kind = "value" THEN Len(assets) + 1 ELSE 0,
                    s, "", ticker, out)
    /\ UNCHANGED <<lists, series>>

Returns(op, obj, t, name, out) ==
    /\ last' = Call(op, obj, t, name, <<>>, out)
    /\ UNCHANGED <<lists, series, assets>>

LinearReturn(s, t) == Returns("linear_return", s, t, "", linear_return(Values(s), t))

LogReturn(s, t) == Returns("log_return", s, t, "", log_return(Values(s), t))

TotalReturn(s) == Returns("total_return", s, 0, "", total_return(Values(s)))

GetAllLinearReturns(s) ==
    Returns("get_all_linear_returns", s, 0, "", get_all_linear_returns(Values(s)))

GetAllLogReturns(s) ==
    Returns("get_all_log_returns", s, 0, "", get_all_log_returns(Values(s)))

AnnualizedVolatility(s) ==
    Returns("annualized_volatility", s, 0, "", annualized_volatility(Values(s)))

AnnualizedReturn(s) ==
    Returns("annualized_return", s, 0, "", annualized_return(Values(s)))

SharpeRatio(s, rf) == Returns("sharpe_ratio", s, rf, "", sharpe_ratio(Values(s), rf))

DrawdownAt(s, t) == Returns("drawdown_at", s, t, "", drawdown_at(Values(s), t))

MaxDrawdown(s) == Returns("max_drawdown", s, 0, "", max_drawdown(Values(s)))

GetAttr(a, name) == Returns("getattr", a, 0, name, AssetGetAttribute(assets[a], name))

CorrelationWith(a, b) ==
    Returns("correlation_with", a, b, "", correlation_with(assets[a], assets[b]))

Next ==
    \/ \E xs \in AllSeqs(HeapPrices, MaxHeapLen) : NewList(xs)
    \/ \E l \in DOMAIN lists, name \in Names : PriceSeriesInit(l, name)
    \/ \E l \in DOMAIN lists : \E i \in DOMAIN lists[l], x \in HeapPrices : SetItem(l, i, x)
    \/ \E ticker \in Tickers, s \in DOMAIN series, sector \in Sectors,
          currency \in Currencies : AssetInit(ticker, s, sector, currency)

NextCalc ==
    \/ \E s \in DOMAIN series, t \in Indices : LinearReturn(s, t)
    \/ \E s \in DOMAIN series, t \in Indices : LogReturn(s, t)
    \/ \E s \in DOMAIN series : TotalReturn(s)
    \/ \E s \in DOMAIN series : GetAllLinearReturns(s)
    \/ \E s \in DOMAIN series : GetAllLogReturns(s)
    \/ \E s \in DOMAIN series : AnnualizedVolatility(s)
    \/ \E s \in DOMAIN series : AnnualizedReturn(s)
    \/ \E s \in DOMAIN series, rf \in Rates : SharpeRatio(s, rf)
    \/ \E s \in DOMAIN series, t \in Indices : DrawdownAt(s, t)
    \/ \E s \in DOMAIN series : MaxDrawdown(s)
    \/ \E a \in DOMAIN assets, name \in AttrNames : GetAttr(a, name)
    \/ \E a \in DOMAIN assets, b \in DOMAIN assets : CorrelationWith(a, b)

Spec == Init /\ [][Next]_vars

SpecCalc == InitCalc /\ [][NextCalc]_vars

(***************************************************************************)
(* Properties                                                              *)
(***************************************************************************)

\* C1: on a series with at least one value, max_drawdown returns the
\* minimum of drawdown_at(t) over all indices t of the series.
C1_MaxDrawdownIsMinDrawdownAt ==
    (last.op = "max_drawdown" /\ Len(Values(last.obj)) >= 1) =>
        LET values == Values(last.obj)
            dds == {drawdown_at(values, t).v.q : t \in 0..(Len(values) - 1)}
        IN  /\ \A t \in 0..(Len(values) - 1) : drawdown_at(values, t).kind = "value"
            /\ last.out.kind = "value"
            /\ last.out.v.tag = "rat"
            /\ last.out.v.q \in dds
            /\ \A dd \in dds : ~FracLess(dd, last.out.v.q)

\* a decline measured on a series that starts below zero
C1_Witness ==
    /\ last.op = "max_drawdown"
    /\ Len(Values(last.obj)) = MaxLen
    /\ Values(last.obj)[1] < 0
    /\ last.out.kind = "value"
    /\ last.out.v.q[1] < 0

\* C2: linear_return(t) and log_return(t) raise an index error whenever t
\* is outside 1..n-1, and return a value only when 1 <= t < n.
C2_IndexErrorOutsideRange ==
    last.op \in {"linear_return", "log_return"} =>
        LET n == Len(Values(last.obj))
            valid == 1 <= last.t /\ last.t < n
        IN  /\ ~valid => last.out = IndexError
            /\ last.out.kind = "value" => valid

\* C6: annualized_volatility raises not-enough-data when n < 3,
\* annualized_return when n < 2, and sharpe_ratio raises it for every n < 3
\* instead of returning the 0.0 fallback.
C6_NotEnoughData ==
    LET n == Len(Values(last.obj)) IN
    /\ (last.op = "annualized_volatility" /\ n < 3) => last.out = NotEnoughData
    /\ (last.op = "annualized_return" /\ n < 2) => last.out = NotEnoughData
    /\ (last.op = "sharpe_ratio" /\ n < 3) => last.out = NotEnoughData

\* sharpe_ratio on two prices, where annualized_return alone would succeed
C6_Witness ==
    /\ last.op = "sharpe_ratio"
    /\ Len(Values(last.obj)) = 2
    /\ annualized_return(Values(last.obj)).kind = "value"
    /\ last.out = NotEnoughData

\* C7: total_return is (values[n-1] - values[0]) / values[0] when n >= 2,
\* and 0.0 without an error when n < 2.
C7_TotalReturn ==
    last.op = "total_return" =>
        LET values == Values(last.obj)
            n == Len(values)
        IN  IF n < 2 THEN last.out = Val(Float0)
            ELSE IF values[1] = 0 THEN last.out = ZeroDivisionError
            ELSE /\ last.out.kind = "value"
                 /\ last.out.v.tag = "rat"
                 /\ last.out.v.q[1] * values[1] = (values[n] - values[1]) * last.out.v.q[2]

\* a non-zero total return over the longest series, its second and last
\* prices being different
C7_Witness ==
    /\ last.op = "total_return"
    /\ Len(Values(last.obj)) = MaxLen
    /\ Values(last.obj)[2] # Values(last.obj)[MaxLen]
    /\ last.out.kind = "value"
    /\ last.out.v.q[1] # 0

\* C9: drawdown_at(t) returns 0.0 at every valid index whose running peak
\* is zero or negative, and max_drawdown is 0.0 when every running peak is.
C9_NonPositivePeakGivesZero ==
    LET values == Values(last.obj)
        n == Len(values)
    IN  /\ (last.op = "drawdown_at" /\ 0 <= last.t /\ last.t < n) =>
               (ListMax(SubSeq(values, 1, last.t + 1)) <= 0 => last.out = Val(Float0))
        /\ (last.op = "max_drawdown" /\ n >= 1) =>
               (ListMax(values) <= 0 => last.out = Val(Float0))

\* C4: each accessor of an Asset gives the outcome of the operation of the
\* owned PriceSeries it stands for, and current_price its last value.
C4_AccessorsDelegate ==
    last.op = "getattr" =>
        LET values == Values(assets[last.obj].prices) IN
        /\ last.name = "volatility" => last.out = annualized_volatility(values)
        /\ last.name = "total_return" => last.out = total_return(values)
        /\ last.name = "sharpe_ratio" => last.out = sharpe_ratio(values, 0)
        /\ last.name = "max_drawdown" => last.out = max_drawdown(values)
        /\ last.name = "current_price" => last.out = Val(Rat(values[Len(values)], 1))

\* C5: correlation_with of an Asset with itself is 1.0 when its log-returns
\* have a non-zero variance, and every number it returns lies in [-1, 1].
C5_SelfCorrelationIsOne ==
    last.op = "correlation_with" =>
        LET r == get_all_log_returns(Values(assets[last.obj].prices)) IN
        /\ (/\ last.obj = last.t
            /\ r.kind = "value"
            /\ Len(r.v.args) >= 2
            /\ ~ZeroVariance(r.v.args)) => last.out = Val(Rat(1, 1))
        /\ (last.out.kind = "value" /\ last.out.v.tag = "rat") =>
               /\ -last.out.v.q[2] <= last.out.v.q[1]
               /\ last.out.v.q[1] <= last.out.v.q[2]

\* C3: Asset construction raises a validation error exactly when the ticker
\* is empty or whitespace-only or the series has no value; every Asset has
\* a ticker with a non-whitespace character and a series of at least one
\* value.
C3_AssetValidation ==
    /\ last.op = "Asset" =>
           LET blank == \A i \in DOMAIN last.ticker : last.ticker[i] \in Whitespace
               empty == Len(Values(last.t)) = 0
           IN  IF blank \/ empty
               THEN last.out.kind = "error" /\ last.out.exc = "ValueError" /\ last.obj = 0
               ELSE last.out = Val(None) /\ last.obj = Len(assets)
    /\ \A a \in DOMAIN assets :
           /\ \E i \in DOMAIN assets[a].ticker : assets[a].ticker[i] \notin Whitespace
           /\ Len(Values(assets[a].prices)) >= 1

\* a whitespace-only ticker is refused for a series that an Asset already
\* holds
C3_Witness ==
    /\ last.op = "Asset"
    /\ last.ticker # <<>>
    /\ \A i \in DOMAIN last.ticker : last.ticker[i] \in Whitespace
    /\ last.out = EmptyTicker
    /\ \E a \in DOMAIN assets : assets[a].prices = last.t

\* C8: a PriceSeries holds the items of the list it was given; a change of
\* the caller's list leaves the values of the series as they are, and a
\* change of the values of the series leaves the caller's list as it is.
C8_DefensiveCopy ==
    [][/\ \A s \in DOMAIN series :
              /\ lists'[series[s].src] # lists[series[s].src] =>
                     lists'[series[s].values] = lists[series[s].values]
              /\ lists'[series[s].values] # lists[series[s].values] =>
                     lists'[series[s].src] = lists[series[s].src]
       /\ last'.op = "PriceSeries" =>
              /\ lists'[series'[last'.obj].values] = lists[last'.t]
              /\ lists'[last'.t] = lists[last'.t]]_vars

\* the caller's list was changed after the construction and the series
\* still has the items it was built with
C8_Witness ==
    /\ last.op = "setitem"
    /\ \E s \in DOMAIN series :
           /\ series[s].src = last.obj
           /\ lists[series[s].src] # lists[series[s].values]

\* C10: no two Assets hold the same PriceSeries object, and the prices of a
\* new Asset are not the PriceSeries object the caller passed.
C10_ExclusiveOwnership ==
    /\ \A a, b \in DOMAIN assets : a # b => assets[a].prices # assets[b].prices
    /\ (last.op = "Asset" /\ last.out.kind = "value") =>
           assets[last.obj].prices # last.t

====
